---- MODULE Spec2Model ----
(***************************************************************************)
(* Model of msds_poc: utils.py (extract_text_from_pdf, parse_msds_data,    *)
(* create_excel_from_msds, process_pdf_files) and main.py (run_poc).        *)
(*                                                                         *)
(* A Python str is a sequence of characters; a character is written as a   *)
(* one-character string, and a Hangul syllable by its code point name      *)
(* ("U+C704").  Chars turns an ASCII literal into such a sequence.          *)
(***************************************************************************)
EXTENDS Integers, Sequences, FiniteSets, TLC

VARIABLES
    \* parse_msds_data
    text,             \* the argument
    lines,            \* text.split('\n')
    line_idx,         \* number of lines the for loop has consumed
    current_section,  \* the section cursor
    msds_sections,    \* label -> list of collected lines
    parsed_data,      \* the returned dict
    ppc,              \* position in parse_msds_data
    \* extract_text_from_pdf
    pdf,              \* the document behind pdf_path
    raw_text,         \* the returned text
    epc,              \* position in extract_text_from_pdf
    \* run_poc and process_pdf_files
    directory,        \* the entries of the input directory
    pdf_files,        \* list(input_dir.glob("*.pdf"))
    file_idx,         \* number of files the for loop has consumed
    results,          \* the result list
    processing_log,   \* the names logged by "Processing: ..." (line 188)
    pdfs_read,        \* the document found behind each processed file
    text_artifact,    \* stem -> what became of <stem>_extracted.txt
    excel_artifact,   \* stem -> what became of <stem>.xlsx
    summary_writes,   \* the dicts run_poc saved as processing_summary.json
    bpc               \* position in run_poc

parse_vars == << text, lines, line_idx, current_section, msds_sections, parsed_data, ppc >>
extract_vars == << pdf, raw_text, epc >>
batch_vars == << directory, pdf_files, file_idx, results, processing_log, pdfs_read,
                 text_artifact, excel_artifact, summary_writes, bpc >>
vars == << parse_vars, extract_vars, batch_vars >>

-----------------------------------------------------------------------------
(* Strings *)

Chars(s) == [i \in 1..Len(s) |-> SubSeq(s, i, i)]

UpperCase == Chars("ABCDEFGHIJKLMNOPQRSTUVWXYZ")
LowerCase == Chars("abcdefghijklmnopqrstuvwxyz")

\* The lower-case form of each ASCII capital.
LowerOf ==
    [c \in {UpperCase[i] : i \in DOMAIN UpperCase} |->
        LowerCase[CHOOSE i \in DOMAIN UpperCase : UpperCase[i] = c]]

\* str.lower() on one character: ASCII capitals fold, Hangul has no case.
LowerChar(c) == IF c \in DOMAIN LowerOf THEN LowerOf[c] ELSE c

Lower(s) == [i \in 1..Len(s) |-> LowerChar(s[i])]

Whitespace == {" ", "\t", "\n", "\r", "\f"}

RECURSIVE LStrip(_)
LStrip(s) ==
    IF s # << >> /\ Head(s) \in Whitespace THEN LStrip(Tail(s)) ELSE s

RECURSIVE RStrip(_)
RStrip(s) ==
    IF s # << >> /\ s[Len(s)] \in Whitespace
    THEN RStrip(SubSeq(s, 1, Len(s) - 1))
    ELSE s

\* str.strip()
Strip(s) == RStrip(LStrip(s))

\* k in s
Contains(s, k) ==
    \E i \in 0..(Len(s) - Len(k)) : SubSeq(s, i + 1, i + Len(k)) = k

\* any(x in s for x in ks)
ContainsAny(s, ks) == \E n \in 1..Len(ks) : Contains(s, ks[n])

\* s.split('\n'): always at least one piece; "" splits to [""].
RECURSIVE SplitFrom(_, _)
SplitFrom(s, piece) ==
    IF s = << >> THEN << piece >>
    ELSE IF Head(s) = "\n" THEN << piece >> \o SplitFrom(Tail(s), << >>)
    ELSE SplitFrom(Tail(s), Append(piece, Head(s)))

Split(s) == SplitFrom(s, << >>)

\* sep.join(parts)
RECURSIVE Join(_, _)
Join(sep, parts) ==
    IF parts = << >> THEN << >>
    ELSE IF Len(parts) = 1 THEN parts[1]
    ELSE parts[1] \o sep \o Join(sep, Tail(parts))

\* values[:n]
Take(values, n) == SubSeq(values, 1, IF Len(values) < n THEN Len(values) ELSE n)

Digits == "0123456789"

\* str(n) for n >= 0
RECURSIVE ToDecimal(_)
ToDecimal(n) ==
    IF n < 10 THEN << SubSeq(Digits, n + 1, n + 1) >>
    ELSE Append(ToDecimal(n \div 10), SubSeq(Digits, (n % 10) + 1, (n % 10) + 1))

-----------------------------------------------------------------------------
(* parse_msds_data *)

None == "None"

\* The keys of msds_sections, in insertion order (the English half of each key).
Labels ==
    << "Product Name", "Supplier", "Chemical Name", "CAS Number", "Hazards",
       "Physical Properties", "Chemical Properties", "Safety Information",
       "Storage", "Disposal", "PPE", "First Aid" >>

LabelSet == {Labels[n] : n \in 1..Len(Labels)}

Keywords1 ==
    << Chars("product name"),
       Chars("product identifier"),
       <<"U+C81C", "U+D488", "U+BA85">>,
       <<"U+C81C", "U+D488">> \o Chars(" ") \o <<"U+C774", "U+B984">> >>
Keywords2 ==
    << Chars("supplier"),
       Chars("manufacturer"),
       <<"U+ACF5", "U+AE09", "U+C790">>,
       <<"U+C81C", "U+C870", "U+C0AC">> >>
Keywords3 ==
    << Chars("chemical name"),
       <<"U+D654", "U+D559", "U+BA85">>,
       Chars("chemical  name") >>
Keywords4 ==
    << Chars("cas number"),
       Chars("cas no"),
       Chars("cas"),
       Chars("cas ") \o <<"U+BC88", "U+D638">> >>
Keywords5 ==
    << Chars("hazard"),
       Chars("danger"),
       <<"U+C704", "U+D5D8">>,
       <<"U+C704", "U+D5D8", "U+C131">> >>
Keywords6 ==
    << Chars("physical property"),
       Chars("appearance"),
       <<"U+BB3C", "U+B9AC", "U+C801">> \o Chars(" ") \o <<"U+C131", "U+C9C8">>,
       <<"U+C678", "U+AD00">> >>
Keywords7 ==
    << Chars("chemical property"),
       <<"U+D654", "U+D559", "U+C801">> \o Chars(" ") \o <<"U+C131", "U+C9C8">> >>
Keywords8 ==
    << Chars("safety"),
       <<"U+C548", "U+C804">> >>
Keywords9 ==
    << Chars("storage"),
       <<"U+BCF4", "U+AD00">> >>
Keywords10 ==
    << Chars("disposal"),
       <<"U+D3D0", "U+AE30">> >>
Keywords11 ==
    << Chars("ppe"),
       Chars("protective equipment"),
       Chars("precaution"),
       <<"U+AC1C", "U+C778", "U+BCF4", "U+D638", "U+C7A5", "U+BE44">>,
       <<"U+BCF4", "U+D638">> >>
Keywords12 ==
    << Chars("first aid"),
       <<"U+C751", "U+AE09", "U+CC98", "U+CE58">> >>

\* A chain that tests the storage keywords before the hazard keywords.
SectionOf_StorageFirst(line_lower) ==
    IF ContainsAny(line_lower, Keywords1) THEN "Product Name"
    ELSE IF ContainsAny(line_lower, Keywords2) THEN "Supplier"
    ELSE IF ContainsAny(line_lower, Keywords3) THEN "Chemical Name"
    ELSE IF ContainsAny(line_lower, Keywords4) THEN "CAS Number"
    ELSE IF ContainsAny(line_lower, Keywords9) THEN "Storage"
    ELSE IF ContainsAny(line_lower, Keywords5) THEN "Hazards"
    ELSE IF ContainsAny(line_lower, Keywords6) THEN "Physical Properties"
    ELSE IF ContainsAny(line_lower, Keywords7) THEN "Chemical Properties"
    ELSE IF ContainsAny(line_lower, Keywords8) THEN "Safety Information"
    ELSE IF ContainsAny(line_lower, Keywords10) THEN "Disposal"
    ELSE IF ContainsAny(line_lower, Keywords11) THEN "PPE"
    ELSE IF ContainsAny(line_lower, Keywords12) THEN "First Aid"
    ELSE None

\* The if/elif chain of the loop body: the section a header line selects,
\* None when the line is no header.
SectionOf(line_lower) ==
    IF ContainsAny(line_lower, Keywords1) THEN "Product Name"
    ELSE IF ContainsAny(line_lower, Keywords2) THEN "Supplier"
    ELSE IF ContainsAny(line_lower, Keywords3) THEN "Chemical Name"
    ELSE IF ContainsAny(line_lower, Keywords4) THEN "CAS Number"
    ELSE IF ContainsAny(line_lower, Keywords5) THEN "Hazards"
    ELSE IF ContainsAny(line_lower, Keywords6) THEN "Physical Properties"
    ELSE IF ContainsAny(line_lower, Keywords7) THEN "Chemical Properties"
    ELSE IF ContainsAny(line_lower, Keywords8) THEN "Safety Information"
    ELSE IF ContainsAny(line_lower, Keywords9) THEN "Storage"
    ELSE IF ContainsAny(line_lower, Keywords10) THEN "Disposal"
    ELSE IF ContainsAny(line_lower, Keywords11) THEN "PPE"
    ELSE IF ContainsAny(line_lower, Keywords12) THEN "First Aid"
    ELSE None

\* A last branch that tests the untrimmed length and keeps the untrimmed line.
CollectLine_Raw(sections, section, line) ==
    IF section # None /\ Strip(line) # << >> /\ Len(line) > 2
    THEN [sections EXCEPT ![section] = Append(@, line)]
    ELSE sections

\* The last elif of the loop body, taken when the line is no header.
CollectLine(sections, section, line) ==
    IF section # None /\ Strip(line) # << >> /\ Len(Strip(line)) > 2
    THEN [sections EXCEPT ![section] = Append(@, Strip(line))]
    ELSE sections

MaxSegments == 5

NA == Chars("N/A")

\* A join that keeps every collected line.
FieldValue_NoLimit(values) ==
    IF values # << >> THEN Join(Chars(" | "), values) ELSE NA

\* A join without the default for an empty list.
FieldValue_NoDefault(values) ==
    Join(Chars(" | "), Take(values, MaxSegments))

\* " | ".join(values[:5]) if values else "N/A"
FieldValue(values) ==
    IF values # << >> THEN Join(Chars(" | "), Take(values, MaxSegments)) ELSE NA

-----------------------------------------------------------------------------
(* Input texts of parse_msds_data: up to MaxHead lines of HeadLines, then   *)
(* up to MaxRows numbered table rows, joined by newlines.                   *)

MaxHead == 3
MaxRows == 6

HeadLines ==
    { Chars("Hazard storage"),                          \* rules 5 and 9
      Chars("  Flammable "),                            \* content, padded
      Chars(" ok "),                                    \* two characters once trimmed
      Chars("N/A"),                                     \* content equal to the default
      <<"U+BCF4", "U+AD00">> \o Chars(" ") \o <<"U+C548", "U+C804">>,  \* rules 8 and 9
      Chars("PPE"),                                     \* rule 11, upper case
      << >> }                                           \* an empty line

Rows(k) == [n \in 1..k |-> Chars("Row ") \o ToDecimal(n)]

RECURSIVE SeqsUpTo(_, _)
SeqsUpTo(S, n) ==
    IF n = 0 THEN { << >> }
    ELSE LET shorter == SeqsUpTo(S, n - 1)
         IN shorter \cup { Append(s, x) : s \in shorter, x \in S }

TextInputs ==
    { Join(<< "\n" >>, head \o Rows(k)) : head \in SeqsUpTo(HeadLines, MaxHead),
                                          k \in 0..MaxRows }

-----------------------------------------------------------------------------
(* Each specification runs one entry point; the variables of the others     *)
(* stay as they are before any call.                                        *)

ParseIdle ==
    /\ text = << >>
    /\ lines = << >>
    /\ line_idx = 0
    /\ current_section = None
    /\ msds_sections = << >>
    /\ parsed_data = << >>
    /\ ppc = "idle"

ExtractIdle ==
    /\ pdf = << >>
    /\ raw_text = << >>
    /\ epc = "idle"

BatchIdle ==
    /\ directory = {}
    /\ pdf_files = << >>
    /\ file_idx = 0
    /\ results = << >>
    /\ processing_log = << >>
    /\ pdfs_read = << >>
    /\ text_artifact = << >>
    /\ excel_artifact = << >>
    /\ summary_writes = << >>
    /\ bpc = "idle"

-----------------------------------------------------------------------------
(* parse_msds_data as a process *)

InitParse ==
    /\ ExtractIdle
    /\ BatchIdle
    /\ text \in TextInputs
    /\ lines = << >>
    /\ line_idx = 0
    /\ current_section = None
    /\ msds_sections = [l \in LabelSet |-> << >>]
    /\ parsed_data = << >>
    /\ ppc = "split"

\* lines = text.split('\n'); current_section = None
SplitLines ==
    /\ ppc = "split"
    /\ lines' = Split(text)
    /\ current_section' = None
    /\ ppc' = "scan"
    /\ UNCHANGED << text, line_idx, msds_sections, parsed_data, extract_vars, batch_vars >>

\* One iteration of "for line in lines".
ScanLine ==
    /\ ppc = "scan"
    /\ line_idx < Len(lines)
    /\ LET line == lines[line_idx + 1]
           line_lower == Strip(Lower(line))
           section == SectionOf(line_lower)
       IN IF section # None
          THEN /\ current_section' = section
               /\ UNCHANGED msds_sections
          ELSE /\ msds_sections' = CollectLine(msds_sections, current_section, line)
               /\ UNCHANGED current_section
    /\ line_idx' = line_idx + 1
    /\ UNCHANGED << text, lines, parsed_data, ppc, extract_vars, batch_vars >>

\* The loop that builds parsed_data, and the return.
BuildResult ==
    /\ ppc = "scan"
    /\ line_idx = Len(lines)
    /\ parsed_data' = [l \in LabelSet |-> FieldValue(msds_sections[l])]
    /\ ppc' = "done"
    /\ UNCHANGED << text, lines, line_idx, current_section, msds_sections, extract_vars,
                    batch_vars >>

NextParse == SplitLines \/ ScanLine \/ BuildResult

SpecParse == InitParse /\ [][NextParse]_vars

-----------------------------------------------------------------------------
(* extract_text_from_pdf *)

\* What page.extract_text(layout=False) does on a page: raise, return None,
\* or return a str (possibly empty).
RaisingPage == [kind |-> "raise", text |-> << >>]
NonePage == [kind |-> "none", text |-> << >>]
TextPage(t) == [kind |-> "text", text |-> t]

\* A document that pdfplumber cannot open, and one it opens with these pages.
CorruptPdf == [opens |-> FALSE, pages |-> << >>]
OpenPdf(pages) == [opens |-> TRUE, pages |-> pages]

\* f"\n--- Page {page_num} ---\n{page_text}"
PageBlock(page_num, page_text) ==
    Chars("\n--- Page ") \o ToDecimal(page_num) \o Chars(" ---\n") \o page_text

\* A page loop that a raising page ends.
RECURSIVE ExtractPages_StopOnError(_, _, _)
ExtractPages_StopOnError(pages, page_num, acc) ==
    IF page_num > Len(pages) THEN acc
    ELSE IF pages[page_num].kind = "raise" THEN acc
    ELSE IF pages[page_num].kind = "text" /\ pages[page_num].text # << >>
         THEN ExtractPages_StopOnError(pages, page_num + 1,
                  acc \o PageBlock(page_num, pages[page_num].text))
         ELSE ExtractPages_StopOnError(pages, page_num + 1, acc)

\* for page_num, page in enumerate(pdf.pages, 1): the text after the pages
\* from page_num on, acc being the text so far.
RECURSIVE ExtractPages(_, _, _)
ExtractPages(pages, page_num, acc) ==
    IF page_num > Len(pages) THEN acc
    ELSE IF pages[page_num].kind = "text" /\ pages[page_num].text # << >>
         THEN ExtractPages(pages, page_num + 1,
                  acc \o PageBlock(page_num, pages[page_num].text))
         ELSE ExtractPages(pages, page_num + 1, acc)

\* The text the function returns for document p.
extract_text_from_pdf(p) ==
    IF p.opens THEN ExtractPages(p.pages, 1, << >>) ELSE << >>

MaxPages == 3

PageOutcomes ==
    { RaisingPage, NonePage, TextPage(<< >>),
      TextPage(Chars("Hazards\nFlammable liquid")), TextPage(Chars("PPE")) }

PdfInputs == { CorruptPdf } \cup { OpenPdf(ps) : ps \in SeqsUpTo(PageOutcomes, MaxPages) }

InitExtract ==
    /\ ParseIdle
    /\ BatchIdle
    /\ pdf \in PdfInputs
    /\ raw_text = << >>
    /\ epc = "call"

ExtractText ==
    /\ epc = "call"
    /\ raw_text' = extract_text_from_pdf(pdf)
    /\ epc' = "done"
    /\ UNCHANGED << pdf, parse_vars, batch_vars >>

NextExtract == ExtractText

SpecExtract == InitExtract /\ [][NextExtract]_vars

-----------------------------------------------------------------------------
(* create_excel_from_msds, process_pdf_files, run_poc *)

\* Directory entries: a stem and a suffix.
Entry(stem, suffix) == [stem |-> stem, suffix |-> suffix]

\* Path.name
FileName(e) == e.stem \o e.suffix

InputEntries ==
    { Entry("a", ".pdf"), Entry("b", ".pdf"), Entry("c", ".pdf"), Entry("notes", ".txt") }

Stems == { e.stem : e \in InputEntries }

\* input_dir.glob("*.pdf") keeps the entries whose name ends in .pdf.
GlobPdf(dir) == { e \in dir : e.suffix = ".pdf" }

\* The orders a directory listing may give the entries of S.
Listings(S) ==
    { l \in SeqsUpTo(S, Cardinality(S)) :
        Len(l) = Cardinality(S) /\ \A e \in S : \E i \in DOMAIN l : l[i] = e }

\* The documents a discovered file may hold.
BatchPdfs ==
    { CorruptPdf,
      OpenPdf(<< RaisingPage, NonePage >>),
      OpenPdf(<< RaisingPage, TextPage(Chars("Hazards\nFlammable liquid")) >>) }

\* The step of the loop body that raises, if any: the call of parse_msds_data,
\* the write of the text file (mkdir, open, write), or the write of the
\* workbook inside create_excel_from_msds.
Faults == { "none", "classify", "text", "excel" }

ErrorMessage(fault) ==
    IF fault = "classify" THEN "MemoryError: out of memory"
    ELSE "[Errno 13] Permission denied"

\* A create_excel_from_msds whose exception reaches the caller.
create_excel_from_msds_Uncaught(fails) ==
    [written |-> ~fails, raised |-> fails]

\* create_excel_from_msds: the whole body is inside try/except Exception, so a
\* failing write is logged and the call returns normally.
create_excel_from_msds(fails) ==
    [written |-> ~fails, raised |-> FALSE]

SuccessResult(e) ==
    [input_file |-> FileName(e),
     output_excel |-> e.stem \o ".xlsx",
     output_text |-> e.stem \o "_extracted.txt",
     status |-> "success"]

FailedResult(e, message) ==
    [input_file |-> FileName(e),
     status |-> "failed",
     error |-> message]

\* What one iteration of the loop does.
Outcome(res, txt, xlsx, escaped) ==
    [results |-> res, text |-> txt, excel |-> xlsx, escaped |-> escaped]

\* A loop body without the try/except around it.
ProcessOne_Uncaught(e, p, fault) ==
    IF extract_text_from_pdf(p) = << >>
    THEN Outcome(<< >>, "none", "none", FALSE)
    ELSE IF fault = "classify"
    THEN Outcome(<< >>, "none", "none", TRUE)
    ELSE IF fault = "text"
    THEN Outcome(<< >>, "failed", "none", TRUE)
    ELSE LET x == create_excel_from_msds(fault = "excel")
         IN Outcome(<< SuccessResult(e) >>, "written",
                    IF x.written THEN "written" ELSE "failed", FALSE)

\* The body of "for pdf_file in pdf_files" for entry e holding document p.
ProcessOne(e, p, fault) ==
    IF extract_text_from_pdf(p) = << >>
    THEN Outcome(<< >>, "none", "none", FALSE)                       \* continue
    ELSE IF fault = "classify"
    THEN Outcome(<< FailedResult(e, ErrorMessage(fault)) >>, "none", "none", FALSE)
    ELSE IF fault = "text"
    THEN Outcome(<< FailedResult(e, ErrorMessage(fault)) >>, "failed", "none", FALSE)
    ELSE LET x == create_excel_from_msds(fault = "excel")
         IN IF x.raised
            THEN Outcome(<< FailedResult(e, ErrorMessage(fault)) >>, "written",
                         "failed", FALSE)
            ELSE Outcome(<< SuccessResult(e) >>, "written",
                         IF x.written THEN "written" ELSE "failed", FALSE)

\* result_summary of run_poc (timestamp, output_dir and note left out).
ResultSummary(res) ==
    [status |-> IF res # << >> THEN "success" ELSE "info",
     processed_files_count |-> Len(res),
     results |-> res]

InitBatch ==
    /\ ParseIdle
    /\ ExtractIdle
    /\ directory \in SUBSET InputEntries
    /\ pdf_files = << >>
    /\ file_idx = 0
    /\ results = << >>
    /\ processing_log = << >>
    /\ pdfs_read = << >>
    /\ text_artifact = [s \in Stems |-> "none"]
    /\ excel_artifact = [s \in Stems |-> "none"]
    /\ summary_writes = << >>
    /\ bpc = "start"

\* run_poc up to the call, and process_pdf_files up to the loop: the listing
\* comes in any order; an empty one returns at once.
ListPdfFiles ==
    /\ bpc = "start"
    /\ \E l \in Listings(GlobPdf(directory)) : pdf_files' = l
    /\ results' = << >>
    /\ bpc' = IF GlobPdf(directory) = {} THEN "returned" ELSE "loop"
    /\ UNCHANGED << directory, file_idx, processing_log, pdfs_read, text_artifact,
                    excel_artifact, summary_writes, parse_vars, extract_vars >>

\* One iteration of "for pdf_file in pdf_files".
ProcessFile ==
    /\ bpc = "loop"
    /\ file_idx < Len(pdf_files)
    /\ \E p \in BatchPdfs, fault \in Faults :
        LET e == pdf_files[file_idx + 1]
            o == ProcessOne(e, p, fault)
        IN /\ processing_log' = Append(processing_log, FileName(e))
           /\ pdfs_read' = Append(pdfs_read, p)
           /\ results' = results \o o.results
           /\ text_artifact' = [text_artifact EXCEPT ![e.stem] = o.text]
           /\ excel_artifact' = [excel_artifact EXCEPT ![e.stem] = o.excel]
           /\ bpc' = IF o.escaped THEN "raised"
                     ELSE IF file_idx + 1 = Len(pdf_files) THEN "returned"
                     ELSE "loop"
    /\ file_idx' = file_idx + 1
    /\ UNCHANGED << directory, pdf_files, summary_writes, parse_vars, extract_vars >>

\* run_poc after the call: build result_summary and save it.
WriteSummary ==
    /\ bpc = "returned"
    /\ summary_writes' = Append(summary_writes, ResultSummary(results))
    /\ bpc' = "done"
    /\ UNCHANGED << directory, pdf_files, file_idx, results, processing_log, pdfs_read,
                    text_artifact, excel_artifact, parse_vars, extract_vars >>

NextBatch == ListPdfFiles \/ ProcessFile \/ WriteSummary

\* run_poc is one sequential thread: while a step is left, it is taken.
SpecBatch == InitBatch /\ [][NextBatch]_vars /\ WF_vars(NextBatch)

-----------------------------------------------------------------------------
(* Claims about parse_msds_data: what the scan of `lines` is expected to   *)
(* do, stated line by line.                                               *)

KeywordRules ==
    << Keywords1, Keywords2, Keywords3, Keywords4, Keywords5, Keywords6,
       Keywords7, Keywords8, Keywords9, Keywords10, Keywords11, Keywords12 >>

\* The rules whose keywords occur in the lower-cased, trimmed line.
MatchingRules(line) ==
    LET line_lower == Strip(Lower(line))
    IN { r \in 1..Len(KeywordRules) : ContainsAny(line_lower, KeywordRules[r]) }

MinOf(S) == CHOOSE m \in S : \A n \in S : m <= n
MaxOf(S) == CHOOSE m \in S : \A n \in S : n <= m

\* The earliest rule the line matches, 0 when it matches none.
EarliestRule(line) ==
    LET m == MatchingRules(line) IN IF m = {} THEN 0 ELSE MinOf(m)

\* EarliestRule of every line of ls.
RECURSIVE EarliestRules(_)
EarliestRules(ls) ==
    IF ls = << >> THEN << >>
    ELSE << EarliestRule(Head(ls)) >> \o EarliestRules(Tail(ls))

\* In what follows H is EarliestRules(lines): line i is a header iff H[i] # 0.
HeadersBefore(H, i) == { j \in 1..(i - 1) : H[j] # 0 }

\* The label of the most recent header line before line i.
LabelBefore(H, i) == Labels[H[MaxOf(HeadersBefore(H, i))]]

\* Line i is content: no rule matches, a header precedes it, and it is longer
\* than two characters once trimmed.
IsContent(H, i) ==
    /\ H[i] = 0
    /\ HeadersBefore(H, i) # {}
    /\ Len(Strip(lines[i])) > 2

RECURSIVE ContentUpTo(_, _, _)
ContentUpTo(H, l, n) ==
    IF n = 0 THEN << >>
    ELSE IF IsContent(H, n) /\ LabelBefore(H, n) = l
         THEN Append(ContentUpTo(H, l, n - 1), Strip(lines[n]))
         ELSE ContentUpTo(H, l, n - 1)

\* The trimmed content lines that follow the headers of label l, in text order.
ContentOf(H, l) == ContentUpTo(H, l, Len(lines))

IsString(v) == v \in Seq({v[i] : i \in DOMAIN v}) /\ \A i \in DOMAIN v : v[i] # None

\* C1 (as amended): the returned mapping has exactly the 12 fixed labels as its
\* keys, each mapped to a string; a label with no collected line maps to "N/A",
\* and a label that maps to "N/A" has either no collected line or the single
\* collected line "N/A".
C1_CompleteMapping ==
    ppc = "done" =>
        /\ DOMAIN parsed_data = LabelSet
        /\ Cardinality(DOMAIN parsed_data) = 12
        /\ \A H \in {EarliestRules(lines)} : \A l \in LabelSet :
            \A c \in {ContentOf(H, l)} :
               /\ IsString(parsed_data[l])
               /\ c = << >> => parsed_data[l] = NA
               /\ parsed_data[l] = NA => c \in { << >>, << NA >> }

\* C1 as claimed: a label maps to "N/A" exactly when no line was collected for it.
C1_NAExactlyWhenEmpty ==
    ppc = "done" =>
        /\ DOMAIN parsed_data = LabelSet
        /\ \A H \in {EarliestRules(lines)} : \A l \in LabelSet :
            /\ IsString(parsed_data[l])
            /\ parsed_data[l] = NA <=> ContentOf(H, l) = << >>

\* One label defaulted to "N/A", another got "N/A" from a collected line.
C1_Witness ==
    /\ ppc = "done"
    /\ \E l \in LabelSet : parsed_data[l] # NA
    /\ \E H \in {EarliestRules(lines)} :
        /\ \E l \in LabelSet : ContentOf(H, l) = << >> /\ parsed_data[l] = NA
        /\ \E l \in LabelSet : ContentOf(H, l) = << NA >> /\ parsed_data[l] = NA

C3_KeywordPriority ==
    (ppc \in {"scan", "done"} /\ line_idx >= 1) =>
        \A e \in {EarliestRule(lines[line_idx])} :
            IF e # 0
            THEN Cardinality(MatchingRules(lines[line_idx])) > 1 =>
                     current_section = Labels[e]
            ELSE (line_idx >= 2 /\ Len(Strip(lines[line_idx])) > 2) =>
                     \A m \in {MatchingRules(lines[line_idx - 1])} :
                         Cardinality(m) > 1 =>
                             /\ current_section = Labels[MinOf(m)]
                             /\ msds_sections[Labels[MinOf(m)]] # << >>
                             /\ msds_sections[Labels[MinOf(m)]]
                                    [Len(msds_sections[Labels[MinOf(m)]])]
                                  = Strip(lines[line_idx])

\* A line matching rule 5 and rule 9 set the cursor to Hazards, and the content
\* line after it went to Hazards.
C3_Witness ==
    /\ ppc = "scan"
    /\ line_idx >= 2
    /\ {5, 9} \subseteq MatchingRules(lines[line_idx - 1])
    /\ EarliestRule(lines[line_idx]) = 0
    /\ current_section = "Hazards"
    /\ msds_sections["Hazards"] # << >>
    /\ msds_sections["Storage"] = << >>

\* C4: the lines collected for a label are exactly the content lines (no rule
\* matches, a header precedes, trimmed length > 2) whose most recent header
\* selects that label, trimmed and in original case; so a header line is never
\* content, lines before the first header are dropped, and a text of header
\* lines only maps every label to "N/A".
C4_CollectedIffContent ==
    ppc = "done" =>
        \A H \in {EarliestRules(lines)} :
           /\ \A l \in LabelSet : msds_sections[l] = ContentOf(H, l)
           /\ \A l \in LabelSet : \A n \in DOMAIN msds_sections[l] :
                  \E i \in DOMAIN lines :
                      H[i] = 0 /\ msds_sections[l][n] = Strip(lines[i])
           /\ (\A i \in DOMAIN lines : H[i] # 0) =>
                  \A l \in LabelSet : parsed_data[l] = NA

\* A padded content line before the first header was dropped, and the same
\* line after a header was collected trimmed.
C4_Witness ==
    /\ ppc = "done"
    /\ Len(lines) >= 3
    /\ lines[1] = Chars("  Flammable ")
    /\ EarliestRule(lines[2]) # 0
    /\ lines[3] = Chars("  Flammable ")
    /\ msds_sections[Labels[EarliestRule(lines[2])]] = << Chars("Flammable") >>

-----------------------------------------------------------------------------
(* Claims about run_poc and process_pdf_files *)

\* The survivors among the pages from i on: each page that returned non-empty
\* text, as its delimiter (numbered by position) and its text.
RECURSIVE SurvivingBlocks(_, _)
SurvivingBlocks(pages, i) ==
    IF i > Len(pages) THEN << >>
    ELSE (IF pages[i].kind = "text" /\ pages[i].text # << >>
          THEN Chars("\n--- Page ") \o ToDecimal(i) \o Chars(" ---\n") \o pages[i].text
          ELSE << >>) \o SurvivingBlocks(pages, i + 1)

\* C9: the returned text is the concatenation, in page order, of one block
\* "\n--- Page N ---\n" + text for exactly the pages that returned non-empty
\* text, N being the page's 1-based position; failing and empty pages add
\* nothing and stop nothing; with no surviving page the text is empty.
C9_RawTextIsSurvivingPages ==
    epc = "done" =>
        /\ raw_text = (IF pdf.opens THEN SurvivingBlocks(pdf.pages, 1) ELSE << >>)
        /\ (\A i \in DOMAIN pdf.pages :
               pdf.pages[i].kind # "text" \/ pdf.pages[i].text = << >>)
             => raw_text = << >>

\* Page 1 raised, page 2 returned no text, page 3 returned text: the text is
\* the block of page 3, numbered 3.
C9_Witness ==
    /\ epc = "done"
    /\ pdf.opens
    /\ Len(pdf.pages) = 3
    /\ pdf.pages[1] = RaisingPage
    /\ pdf.pages[2] = NonePage
    /\ pdf.pages[3] = TextPage(Chars("PPE"))
    /\ raw_text = Chars("\n--- Page 3 ---\nPPE")

\* The names of the listed files, in listing order.
ListedNames == [i \in DOMAIN pdf_files |-> FileName(pdf_files[i])]

\* C5: whatever fails for a document, no exception leaves process_pdf_files,
\* every listed document is visited exactly once, and the run ends with
\* processing_summary.json written exactly once.
C5_BatchCompletes ==
    /\ [](bpc # "raised")
    /\ <>(/\ bpc = "done"
          /\ Len(summary_writes) = 1
          /\ Len(pdf_files) = Cardinality(GlobPdf(directory))
          /\ processing_log = ListedNames)

\* Three documents, every one of them failed, and the summary was written.
C5_Witness ==
    /\ bpc = "done"
    /\ Len(pdf_files) = 3
    /\ Len(results) = 3
    /\ \A n \in DOMAIN results : results[n].status = "failed"
    /\ Len(summary_writes) = 1

\* C6: every processed document has an entry in the result list, and a
\* document that gave no text (it could not be opened, or no page gave text)
\* has one with status "failed" and a non-empty error.
C6_EveryDocumentHasResult ==
    bpc = "done" =>
        \A i \in DOMAIN processing_log :
            \E n \in DOMAIN results :
                /\ results[n].input_file = processing_log[i]
                /\ extract_text_from_pdf(pdfs_read[i]) = << >> =>
                       /\ results[n].status = "failed"
                       /\ results[n].error # ""

\* C7: processed_files_count of the saved summary is the number of results
\* with status "success".
C7_CountIsSuccesses ==
    \A w \in DOMAIN summary_writes :
        summary_writes[w].processed_files_count =
            Cardinality({ n \in DOMAIN summary_writes[w].results :
                            summary_writes[w].results[n].status = "success" })

HasResult(name, status) ==
    \E n \in DOMAIN results :
        results[n].input_file = name /\ results[n].status = status

\* C8: a failing workbook write never leaves create_excel_from_msds: a document
\* whose text file was written has a "success" result whatever became of the
\* workbook, and one whose text file failed has a "failed" result and no
\* workbook write was attempted.
C8_ExcelFailureContained ==
    /\ bpc # "raised"
    /\ \A i \in DOMAIN processing_log :
        LET e == pdf_files[i]
        IN /\ text_artifact[e.stem] = "written" =>
                  /\ excel_artifact[e.stem] \in {"written", "failed"}
                  /\ HasResult(FileName(e), "success")
                  /\ ~HasResult(FileName(e), "failed")
           /\ text_artifact[e.stem] = "failed" =>
                  /\ excel_artifact[e.stem] = "none"
                  /\ HasResult(FileName(e), "failed")
                  /\ ~HasResult(FileName(e), "success")

\* A document whose text file was written and whose workbook write failed is
\* reported as a success; another whose text file failed is reported failed.
C8_Witness ==
    /\ \E i \in DOMAIN processing_log :
        /\ text_artifact[pdf_files[i].stem] = "written"
        /\ excel_artifact[pdf_files[i].stem] = "failed"
        /\ HasResult(processing_log[i], "success")
    /\ \E i \in DOMAIN processing_log :
        /\ text_artifact[pdf_files[i].stem] = "failed"
        /\ HasResult(processing_log[i], "failed")

\* The order of characters in file names ('.' sorts before the letters).
CharOrder == Chars(".abcdefghijklmnopqrstuvwxyz")

CharRank(c) == CHOOSE i \in DOMAIN CharOrder : CharOrder[i] = c

\* a < b for two strings, as sorted() compares them.
RECURSIVE StrLess(_, _)
StrLess(a, b) ==
    IF b = << >> THEN FALSE
    ELSE IF a = << >> THEN TRUE
    ELSE IF Head(a) = Head(b) THEN StrLess(Tail(a), Tail(b))
    ELSE CharRank(Head(a)) < CharRank(Head(b))

\* C10: the entries of the result list are in filename-sorted order.
C10_ResultsSortedByName ==
    bpc = "done" =>
        \A m, n \in DOMAIN results :
            m < n => StrLess(Chars(results[m].input_file), Chars(results[n].input_file))

====
